---- MODULE Spec2Model ----
(***************************************************************************)
(* A model of build_publications.py: the one-shot generator that reads     *)
(* publications.csv, renders one markup fragment per row, buckets the      *)
(* fragments by section and fills them into the page template.             *)
(*                                                                         *)
(* A text (a Python str) is a sequence of one-character strings.  Static   *)
(* markup that the program emits from its own literals and that holds no   *)
(* field data is abbreviated to one multi-character element (for example   *)
(* "[h3]"); everything that comes from a field value, and every literal    *)
(* that a later step searches or rewrites, is kept character by character. *)
(***************************************************************************)
EXTENDS Integers, Sequences, FiniteSets, TLC

VARIABLES
    pc,         \* position of main(): "start", "open_csv", "reading", ..., "done", "failed",
                \* "crashed"; of a helper applied on its own: "call", "return"
    csvExists,  \* whether publications.csv exists
    table,      \* the parsed content of publications.csv: [header, data]
    rows,       \* the list read_rows returned
    idx,        \* loop index of "for r in rows"
    buckets,    \* the dict of four fragment lists
    html_out,   \* the assembled document
    outFile,    \* content of publications.html, or NoFile
    outOpens,   \* number of times publications.html was opened for writing
    stderr,     \* lines written to standard error
    stdout,     \* lines written to standard output
    exitStatus, \* << >> while running, then the one-element list of the exit status
    events,     \* the file operations done so far, in order
    fn,         \* name of the helper applied on its own ("none" inside main)
    arg,        \* the helper's argument
    res         \* the helper's result

vars == << pc, csvExists, table, rows, idx, buckets, html_out, outFile, outOpens,
           stderr, stdout, exitStatus, events, fn, arg, res >>

mainVars == << pc, csvExists, table, rows, idx, buckets, html_out, outFile, outOpens,
               stderr, stdout, exitStatus, events >>

fnVars == << fn, arg, res >>

(***************************************************************************)
(* Bounds of the model.                                                    *)
(***************************************************************************)
MaxRows == 3           \* data lines of the table
MaxSectionPieces == 3  \* pieces a section label is put together from
MaxFmtPieces == 3      \* pieces a text given to fmt is put together from
MaxSegments == 3       \* segments of a text of well-formed emphasis spans
MaxMediaPieces == 3    \* pieces a media value is put together from
MaxValuePieces == 2    \* pieces a field value given to article is put together from

(***************************************************************************)
(* Texts.                                                                  *)
(***************************************************************************)
RECURSIVE Concat(_)
Concat(ss) == IF ss = << >> THEN << >> ELSE Head(ss) \o Concat(Tail(ss))

\* All concatenations of at most n pieces of the set P.
RECURSIVE Compose(_, _)
Compose(P, n) ==
    IF n = 0 THEN { << >> }
    ELSE LET prev == Compose(P, n - 1)
         IN  prev \cup { p \o s : p \in P, s \in prev }

Whitespace == { " ", "\t", "\n", "\r" }

UpperCase == << "A","B","C","D","E","F","G","H","I","J","K","L","M",
                "N","O","P","Q","R","S","T","U","V","W","X","Y","Z" >>
LowerCase == << "a","b","c","d","e","f","g","h","i","j","k","l","m",
                "n","o","p","q","r","s","t","u","v","w","x","y","z" >>

\* str.lower on one character.
LowerChar(c) ==
    IF \E i \in 1..26 : UpperCase[i] = c
    THEN LowerCase[CHOOSE i \in 1..26 : UpperCase[i] = c]
    ELSE c

\* str.lower
Lower(s) == [ i \in 1..Len(s) |-> LowerChar(s[i]) ]

\* str.strip: drop the leading and the trailing whitespace.
RECURSIVE LStrip(_)
LStrip(s) == IF s # << >> /\ Head(s) \in Whitespace THEN LStrip(Tail(s)) ELSE s

RECURSIVE RStrip(_)
RStrip(s) ==
    IF s # << >> /\ s[Len(s)] \in Whitespace THEN RStrip(SubSeq(s, 1, Len(s) - 1)) ELSE s

Strip(s) == RStrip(LStrip(s))

\* str.startswith
StartsWith(s, p) == Len(s) >= Len(p) /\ SubSeq(s, 1, Len(p)) = p

\* Whether old occurs in s at position i.
MatchAt(s, i, old) == i + Len(old) - 1 <= Len(s) /\ SubSeq(s, i, i + Len(old) - 1) = old

\* The least element of a non-empty set of integers.
Min(S) == CHOOSE x \in S : \A y \in S : x <= y

\* str.replace(old, new) for a non-empty old: leftmost occurrences, not overlapping,
\* the replacement text is not searched again.  From position i on: the text up to
\* the next occurrence is copied, the occurrence replaced, the search resumed after it.
RECURSIVE ReplaceFrom(_, _, _, _)
ReplaceFrom(s, i, old, new) ==
    LET found == { j \in i..Len(s) : MatchAt(s, j, old) }
    IN  IF found = { } THEN SubSeq(s, i, Len(s))
        ELSE SubSeq(s, i, Min(found) - 1) \o new
             \o ReplaceFrom(s, Min(found) + Len(old), old, new)

Replace(s, old, new) == ReplaceFrom(s, 1, old, new)

(***************************************************************************)
(* normalize_section                                                       *)
(***************************************************************************)
Bucket == { "journal", "working", "conference", "other" }

JOUR == << "j", "o", "u", "r" >>
WORK == << "w", "o", "r", "k" >>
CONF == << "c", "o", "n", "f" >>

\* normalize_section without the .lower() of line 125.
normalize_section_nolower(s0) ==
    LET s == Strip(s0)
    IN  IF StartsWith(s, JOUR) THEN "journal"
        ELSE IF StartsWith(s, WORK) THEN "working"
        ELSE IF StartsWith(s, CONF) THEN "conference"
        ELSE "other"

\* Lines 124-129.
normalize_section(s0) ==
    LET s == Lower(Strip(s0))
    IN  IF StartsWith(s, JOUR) THEN "journal"
        ELSE IF StartsWith(s, WORK) THEN "working"
        ELSE IF StartsWith(s, CONF) THEN "conference"
        ELSE "other"

(***************************************************************************)
(* esc: html.escape(s, quote=True)                                         *)
(***************************************************************************)
AMP  == << "&", "a", "m", "p", ";" >>
LT   == << "&", "l", "t", ";" >>
GT   == << "&", "g", "t", ";" >>
QUOT == << "&", "q", "u", "o", "t", ";" >>
APOS == << "&", "#", "x", "2", "7", ";" >>

\* html.escape with quote=False: the two quote characters are left as they are.
EscChar_noquote(c) ==
    CASE c = "&" -> AMP
      [] c = "<" -> LT
      [] c = ">" -> GT
      [] OTHER   -> << c >>

\* html.escape with quote=True, on one character.
EscChar(c) ==
    CASE c = "&"  -> AMP
      [] c = "<"  -> LT
      [] c = ">"  -> GT
      [] c = "\"" -> QUOT
      [] c = "'"  -> APOS
      [] OTHER    -> << c >>

esc(s) == Concat([ i \in 1..Len(s) |-> EscChar(s[i]) ])

(***************************************************************************)
(* fmt: escape, then the four emphasis substitutions, then the whitelist.  *)
(***************************************************************************)
EM     == << "e", "m" >>
STRONG == << "s", "t", "r", "o", "n", "g" >>
TagI   == << "i" >>
TagB   == << "b" >>

OpenTag(name)  == << "<" >> \o name \o << ">" >>
CloseTag(name) == << "<", "/" >> \o name \o << ">" >>
EscOpenTag(name)  == LT \o name \o GT
EscCloseTag(name) == LT \o << "/" >> \o name \o GT

\* Where the closing double marker of "mm(.+?)mm" starts, trying j, j+1, ...: the
\* first j with t[j] = t[j+1] = m; 0 when the group would hold a newline ("." does
\* not match "\n") or the text ends first.
Close2(t, j0, m) ==
    LET ends == { j \in j0..(Len(t) - 1) :
                    /\ t[j] = m /\ t[j + 1] = m
                    /\ \A k \in (j0 - 1)..(j - 1) : t[k] # "\n" }
    IN  IF ends = { } THEN 0 ELSE Min(ends)

\* Whether "mm(.+?)mm" matches at position i.
MatchDouble(t, i, m) ==
    /\ i + 1 <= Len(t) /\ t[i] = m /\ t[i + 1] = m
    /\ Close2(t, i + 3, m) # 0

\* re.sub(r"mm(.+?)mm", r"<strong>\1</strong>", t), scanning from position i: the
\* text up to the leftmost match is copied, the match rewritten, the scan resumed
\* after it.
RECURSIVE SubDouble(_, _, _)
SubDouble(t, i, m) ==
    LET starts == { k \in i..Len(t) : MatchDouble(t, k, m) }
    IN  IF starts = { } THEN SubSeq(t, i, Len(t))
        ELSE LET k == Min(starts)
                 j == Close2(t, k + 3, m)
             IN  SubSeq(t, i, k - 1)
                 \o OpenTag(STRONG) \o SubSeq(t, k + 2, j - 1) \o CloseTag(STRONG)
                 \o SubDouble(t, j + 2, m)

\* (?<!m)m(?!m) at position i: a marker with no marker before or after it.
LoneMarker(t, i, m) ==
    /\ i >= 1 /\ i <= Len(t)
    /\ t[i] = m
    /\ (i = 1 \/ t[i - 1] # m)
    /\ (i = Len(t) \/ t[i + 1] # m)

\* Where the closing marker of "(?<!m)m(?!m)(.+?)(?<!m)m(?!m)" is, trying j, j+1, ...
\* the first lone marker at j0 or later with no newline in the group before it ("."
\* does not match "\n"), or 0.
Close1(t, j0, m) ==
    LET ends == { j \in j0..Len(t) :
                    /\ LoneMarker(t, j, m)
                    /\ \A k \in (j0 - 1)..(j - 1) : t[k] # "\n" }
    IN  IF ends = { } THEN 0 ELSE Min(ends)

\* Whether "(?<!m)m(?!m)(.+?)(?<!m)m(?!m)" matches at position i.
MatchSingle(t, i, m) == LoneMarker(t, i, m) /\ Close1(t, i + 2, m) # 0

\* re.sub(r"(?<!m)m(?!m)(.+?)(?<!m)m(?!m)", r"<em>\1</em>", t), scanning from i.
RECURSIVE SubSingle(_, _, _)
SubSingle(t, i, m) ==
    LET starts == { k \in i..Len(t) : MatchSingle(t, k, m) }
    IN  IF starts = { } THEN SubSeq(t, i, Len(t))
        ELSE LET k == Min(starts)
                 j == Close1(t, k + 2, m)
             IN  SubSeq(t, i, k - 1)
                 \o OpenTag(EM) \o SubSeq(t, k + 1, j - 1) \o CloseTag(EM)
                 \o SubSingle(t, j + 1, m)

\* The markdown half of fmt (lines 144-147).
Emphasis(t0) ==
    LET t1 == SubDouble(t0, 1, "*")
        t2 == SubDouble(t1, 1, "_")
        t3 == SubSingle(t2, 1, "*")
    IN  SubSingle(t3, 1, "_")

\* A whitelist that turns every escaped angle bracket back.
Whitelist_anyTag(t0) == Replace(Replace(t0, LT, << "<" >>), GT, << ">" >>)

\* The whitelist half of fmt (lines 149-152).
Whitelist(t0) ==
    LET t1 == Replace(t0, EscOpenTag(EM), OpenTag(EM))
        t2 == Replace(t1, EscCloseTag(EM), CloseTag(EM))
        t3 == Replace(t2, EscOpenTag(TagI), OpenTag(EM))
        t4 == Replace(t3, EscCloseTag(TagI), CloseTag(EM))
        t5 == Replace(t4, EscOpenTag(STRONG), OpenTag(STRONG))
        t6 == Replace(t5, EscCloseTag(STRONG), CloseTag(STRONG))
        t7 == Replace(t6, EscOpenTag(TagB), OpenTag(STRONG))
    IN  Replace(t7, EscCloseTag(TagB), CloseTag(STRONG))

fmt(s) == Whitelist(Emphasis(esc(s)))

(***************************************************************************)
(* Rows.  A row is a dict from field names to texts, modelled as a         *)
(* function whose domain is the set of names present.  A field name is     *)
(* written as one element (its run of non-whitespace characters), with any *)
(* whitespace around it kept character by character.                       *)
(***************************************************************************)
Name(n) == << n >>

\* row.get(k, "") and (row.get(k) or ""): the values of a row are never None.
Get(row, k) == IF Name(k) \in DOMAIN row THEN row[Name(k)] ELSE << >>

\* Index of the first occurrence of the character c in s at or after i, or 0.
IndexFrom(s, i, c) ==
    LET at == { j \in i..Len(s) : s[j] = c }
    IN  IF at = { } THEN 0 ELSE Min(at)

\* Index of the last occurrence of the character c in s at or before i, or 0.
IndexBack(s, i, c) ==
    LET at == { j \in 1..i : j <= Len(s) /\ s[j] = c }
    IN  IF at = { } THEN 0 ELSE CHOOSE x \in at : \A y \in at : y <= x

\* str.split(c): the list of the texts between the occurrences of c.
RECURSIVE Split(_, _)
Split(s, c) ==
    LET k == IndexFrom(s, 1, c)
    IN  IF k = 0 THEN << s >>
        ELSE << SubSeq(s, 1, k - 1) >> \o Split(SubSeq(s, k + 1, Len(s)), c)

\* sep.join(list)
RECURSIVE Join(_, _)
Join(sep, list) ==
    IF list = << >> THEN << >>
    ELSE IF Len(list) = 1 THEN list[1]
    ELSE list[1] \o sep \o Join(sep, Tail(list))

(***************************************************************************)
(* links                                                                   *)
(***************************************************************************)
PAPER  == << "P", "a", "p", "e", "r" >>
SLIDES == << "S", "l", "i", "d", "e", "s" >>
DOI    == << "D", "O", "I" >>
NL     == << "\n" >>
NL_ENTITY     == << "&", "#", "1", "0", ";" >>
NL_ENTITY_ESC == AMP \o << "#", "1", "0", ";" >>
SEP_LINKS == << "\n            " >>
SEP_PILLS == << "\n          " >>

\* An item split on its last "|" instead of its first.
SplitItem_last(item) ==
    LET k == IndexBack(item, Len(item), "|")
    IN  IF k = 0 THEN [ label |-> Strip(item), url |-> << >> ]
        ELSE [ label |-> Strip(SubSeq(item, 1, k - 1)),
               url   |-> Strip(SubSeq(item, k + 1, Len(item))) ]

\* (item.split("|", 1) + [""])[:2], then both halves stripped (lines 68-70).
SplitItem(item) ==
    LET k == IndexFrom(item, 1, "|")
    IN  IF k = 0 THEN [ label |-> Strip(item), url |-> << >> ]
        ELSE [ label |-> Strip(SubSeq(item, 1, k - 1)),
               url   |-> Strip(SubSeq(item, k + 1, Len(item))) ]

\* One badge (lines 73-76).
MediaPill(it) ==
    IF it.url # << >>
    THEN << "[a.media-pill href=]" >> \o esc(it.url) \o << "[ rel=noopener>]" >>
         \o esc(it.label) \o << "[/a]" >>
    ELSE << "[span.media-pill]" >> \o esc(it.label) \o << "[/span]" >>

\* The loop over media_raw.split(";") (lines 66-76): the list pills_html.
RECURSIVE PillsOf(_)
PillsOf(items) ==
    IF items = << >> THEN << >>
    ELSE LET it == SplitItem(Head(items))
         IN  (IF it.label = << >> THEN << >> ELSE << MediaPill(it) >>)
             \o PillsOf(Tail(items))

pills_html(media_raw) == PillsOf(Split(media_raw, ";"))

\* The citation text (line 53).
Cite(bibtex) == Replace(esc(bibtex), NL_ENTITY_ESC, NL_ENTITY)

\* links with the label of line 42 taken as row.get("paper_label") or "Paper",
\* neither trimmed nor defaulted a second time.
links_labelAsGiven(row) ==
    LET paper_label ==
            IF Get(row, "paper_label") # << >> THEN Get(row, "paper_label") ELSE PAPER
        paper ==
            IF Get(row, "paper_url") # << >>
            THEN << << "[a.btn href=]" >> \o esc(Get(row, "paper_url"))
                    \o << "[ itemprop=url>]" >> \o esc(paper_label) \o << "[/a]" >> >>
            ELSE << >>
        slides ==
            IF Get(row, "slides_url") # << >>
            THEN << << "[a.btn href=]" >> \o esc(Get(row, "slides_url"))
                    \o << "[>]" >> \o SLIDES \o << "[/a]" >> >>
            ELSE << >>
        doi ==
            IF Get(row, "doi_url") # << >>
            THEN << << "[a.btn href=]" >> \o esc(Get(row, "doi_url"))
                    \o << "[>]" >> \o DOI \o << "[/a]" >> >>
            ELSE << >>
        cite ==
            IF Get(row, "bibtex") # << >>
            THEN << << "[details.cite][pre][code]" >> \o Cite(Get(row, "bibtex"))
                    \o << "[/code][/pre][/details]" >> >>
            ELSE << >>
        media_raw == Strip(Get(row, "media"))
        media ==
            IF media_raw # << >>
            THEN << << "[details.media][div.media-list]" >>
                    \o Concat(pills_html(media_raw))
                    \o << "[/div][/details]" >> >>
            ELSE << >>
    IN  Join(SEP_LINKS,
             << << "[div.links]" >> >> \o paper \o slides \o doi \o cite \o media
             \o << << "[/div]" >> >>)

\* links with the Media control of lines 77-85 appended only when pills_html is
\* not empty.
links_mediaNeedsBadge(row) ==
    LET paper_label ==
            LET l == Strip(IF Get(row, "paper_label") # << >>
                           THEN Get(row, "paper_label") ELSE PAPER)
            IN  IF l # << >> THEN l ELSE PAPER
        paper ==
            IF Get(row, "paper_url") # << >>
            THEN << << "[a.btn href=]" >> \o esc(Get(row, "paper_url"))
                    \o << "[ itemprop=url>]" >> \o esc(paper_label) \o << "[/a]" >> >>
            ELSE << >>
        slides ==
            IF Get(row, "slides_url") # << >>
            THEN << << "[a.btn href=]" >> \o esc(Get(row, "slides_url"))
                    \o << "[>]" >> \o SLIDES \o << "[/a]" >> >>
            ELSE << >>
        doi ==
            IF Get(row, "doi_url") # << >>
            THEN << << "[a.btn href=]" >> \o esc(Get(row, "doi_url"))
                    \o << "[>]" >> \o DOI \o << "[/a]" >> >>
            ELSE << >>
        cite ==
            IF Get(row, "bibtex") # << >>
            THEN << << "[details.cite][pre][code]" >> \o Cite(Get(row, "bibtex"))
                    \o << "[/code][/pre][/details]" >> >>
            ELSE << >>
        media_raw == Strip(Get(row, "media"))
        media ==
            IF pills_html(media_raw) # << >>
            THEN << << "[details.media][div.media-list]" >>
                    \o Concat(pills_html(media_raw))
                    \o << "[/div][/details]" >> >>
            ELSE << >>
    IN  Join(SEP_LINKS,
             << << "[div.links]" >> >> \o paper \o slides \o doi \o cite \o media
             \o << << "[/div]" >> >>)

\* links (lines 38-87).
links(row) ==
    LET paper_label ==
            LET l == Strip(IF Get(row, "paper_label") # << >>
                           THEN Get(row, "paper_label") ELSE PAPER)
            IN  IF l # << >> THEN l ELSE PAPER
        paper ==
            IF Get(row, "paper_url") # << >>
            THEN << << "[a.btn href=]" >> \o esc(Get(row, "paper_url"))
                    \o << "[ itemprop=url>]" >> \o esc(paper_label) \o << "[/a]" >> >>
            ELSE << >>
        slides ==
            IF Get(row, "slides_url") # << >>
            THEN << << "[a.btn href=]" >> \o esc(Get(row, "slides_url"))
                    \o << "[>]" >> \o SLIDES \o << "[/a]" >> >>
            ELSE << >>
        doi ==
            IF Get(row, "doi_url") # << >>
            THEN << << "[a.btn href=]" >> \o esc(Get(row, "doi_url"))
                    \o << "[>]" >> \o DOI \o << "[/a]" >> >>
            ELSE << >>
        cite ==
            IF Get(row, "bibtex") # << >>
            THEN << << "[details.cite][pre][code]" >> \o Cite(Get(row, "bibtex"))
                    \o << "[/code][/pre][/details]" >> >>
            ELSE << >>
        media_raw == Strip(Get(row, "media"))
        media ==
            IF media_raw # << >>
            THEN << << "[details.media][div.media-list]" >>
                    \o Concat(pills_html(media_raw))
                    \o << "[/div][/details]" >> >>
            ELSE << >>
    IN  Join(SEP_LINKS,
             << << "[div.links]" >> >> \o paper \o slides \o doi \o cite \o media
             \o << << "[/div]" >> >>)

(***************************************************************************)
(* pills, article                                                          *)
(***************************************************************************)
pills(status, year, venue) ==
    Join(SEP_PILLS,
         (IF status # << >>
          THEN << << "[span.pill Status]" >> \o esc(status) \o << "[/span]" >> >>
          ELSE << >>)
         \o (IF year # << >>
             THEN << << "[span.pill Year]" >> \o esc(year) \o << "[/span]" >> >>
             ELSE << >>)
         \o (IF venue # << >>
             THEN << << "[span.pill Venue]" >> \o esc(venue) \o << "[/span]" >> >>
             ELSE << >>))

SOLO == << "s", "o", "l", "o" >>
WITH_PREFIX == << "w", "i", "t", "h", " " >>

article(row) ==
    LET title == esc(Get(row, "title"))
        authors == Strip(Get(row, "authors"))
        authors_html ==
            IF authors = << >> \/ Lower(authors) = SOLO THEN SOLO
            ELSE WITH_PREFIX \o esc(authors)
        comment == Strip(Get(row, "comment"))
        comment_html ==
            IF comment # << >>
            THEN << "[div.comment]" >> \o esc(comment) \o << "[/div]" >>
            ELSE << >>
        abstract == Strip(Replace(Get(row, "abstract"), << "\r", "\n" >>, NL))
        abstract_html ==
            IF abstract # << >>
            THEN << "[details.abstract][div.abs-body]" >> \o fmt(abstract)
                 \o << "[/div][/details]" >>
            ELSE << >>
    IN  << "[article][div.title-row][h3.title]" >> \o title \o << "[/h3]" >>
        \o links(row)
        \o << "[/div][div.meta]" >>
        \o pills(Get(row, "status"), Get(row, "year"), Get(row, "venue"))
        \o << "[/div][div.authors]" >> \o authors_html \o << "[/div]" >>
        \o comment_html
        \o abstract_html
        \o << "[/article]" >>

(***************************************************************************)
(* read_rows.  The table is what the csv module hands over: the cells of   *)
(* the header line and the cells of each data line.                        *)
(***************************************************************************)
\* A value that may be None.
Some(t) == [ none |-> FALSE, text |-> t ]
None == [ none |-> TRUE, text |-> << >> ]

\* d[k] = v on a dict kept as the list of its items in insertion order.
DictPut(d, k, v) ==
    IF \E i \in 1..Len(d) : d[i].k = k
    THEN [ i \in 1..Len(d) |-> IF d[i].k = k THEN [ k |-> k, v |-> v ] ELSE d[i] ]
    ELSE Append(d, [ k |-> k, v |-> v ])

\* dict(zip(fieldnames, row)), from the i-th pair on.
RECURSIVE ZipFrom(_, _, _, _)
ZipFrom(d, header, cells, i) ==
    IF i > Len(header) \/ i > Len(cells) THEN d
    ELSE ZipFrom(DictPut(d, Some(header[i]), Some(cells[i])), header, cells, i + 1)

\* for key in fieldnames[lr:]: d[key] = restval (None), from the i-th name on.
RECURSIVE RestvalFrom(_, _, _)
RestvalFrom(d, header, i) ==
    IF i > Len(header) THEN d
    ELSE RestvalFrom(DictPut(d, Some(header[i]), None), header, i + 1)

\* csv.DictReader.__next__ on one non-empty line: the cells beyond the header go
\* under the key None (restkey), the names beyond the cells get None (restval).
DictReaderRow(header, cells) ==
    LET d == ZipFrom(<< >>, header, cells, 1)
    IN  IF Len(header) < Len(cells)
        THEN DictPut(d, None, Some(<< >>))
        ELSE RestvalFrom(d, header, Len(cells) + 1)

\* Whether {k.strip(): (v or "").strip() for k, v in r.items()} raises: None has no strip.
Raises(d) == \E i \in 1..Len(d) : d[i].k.none

\* The comprehension of line 136 without the strip of the field names.
RECURSIVE StripItems_keepnames(_, _, _)
StripItems_keepnames(out, d, i) ==
    IF i > Len(d) THEN out
    ELSE StripItems_keepnames(
             DictPut(out, d[i].k.text, Strip(IF d[i].v.none THEN << >> ELSE d[i].v.text)),
             d, i + 1)

\* The comprehension of line 136 on the items from the i-th on.
RECURSIVE StripItems(_, _, _)
StripItems(out, d, i) ==
    IF i > Len(d) THEN out
    ELSE StripItems(
             DictPut(out, Strip(d[i].k.text),
                     Strip(IF d[i].v.none THEN << >> ELSE d[i].v.text)),
             d, i + 1)

\* A dict kept as a list of items, as the function from its keys to its values.
AsRow(items) ==
    [ k \in { items[i].k : i \in 1..Len(items) } |->
        items[CHOOSE i \in 1..Len(items) : items[i].k = k].v ]

\* The lines DictReader yields: it skips the lines with no cell at all.
DataLines(t) == SelectSeq(t.data, LAMBDA cells : cells # << >>)

\* read_rows: the rows, or the failure of the first line that raises.
read_rows(t) ==
    LET lines == DataLines(t)
        ds == [ i \in 1..Len(lines) |-> DictReaderRow(t.header, lines[i]) ]
    IN  IF \E i \in 1..Len(ds) : Raises(ds[i])
        THEN [ ok |-> FALSE, rows |-> << >> ]
        ELSE [ ok |-> TRUE,
               rows |-> [ i \in 1..Len(ds) |-> AsRow(StripItems(<< >>, ds[i], 1)) ] ]

(***************************************************************************)
(* SHELL and main                                                          *)
(***************************************************************************)
ITEMS == << "_", "I", "T", "E", "M", "S", "}", "}" >>
PH_JOURNAL == << "{", "{", "J", "O", "U", "R", "N", "A", "L" >> \o ITEMS
PH_WORKING == << "{", "{", "W", "O", "R", "K", "I", "N", "G" >> \o ITEMS
PH_CONF    == << "{", "{", "C", "O", "N", "F" >> \o ITEMS
PH_OTHER   == << "{", "{", "O", "T", "H", "E", "R" >> \o ITEMS

\* The static parts of the template around the four placeholders, in page order.
SHELL_HEAD  == << "[html][head][nav][section journal]" >>
SHELL_CONF  == << "[/section][section conference]" >>
SHELL_WORK  == << "[/section][section working]" >>
SHELL_OTHER == << "[/section][section other]" >>
SHELL_TAIL  == << "[/section][script][/html]" >>

SHELL ==
    SHELL_HEAD \o PH_JOURNAL \o SHELL_CONF \o PH_CONF \o SHELL_WORK \o PH_WORKING
    \o SHELL_OTHER \o PH_OTHER \o SHELL_TAIL

\* "\n".join(bucket) or "\n"
Slot(bucket) == LET j == Join(NL, bucket) IN IF j # << >> THEN j ELSE NL

\* Lines 521-525: four replacements, one after the other, each on the result of
\* the one before.
FillShell(b) ==
    LET d1 == Replace(SHELL, PH_JOURNAL, Slot(b["journal"]))
        d2 == Replace(d1, PH_WORKING, Slot(b["working"]))
        d3 == Replace(d2, PH_CONF, Slot(b["conference"]))
    IN  Replace(d3, PH_OTHER, Slot(b["other"]))

\* list.reverse()
Reverse(l) == [ i \in 1..Len(l) |-> l[Len(l) + 1 - i] ]

\* A list left in its order.
Identity(l) == l

\* Line 518, on one bucket.
ReverseBucket(l) == Reverse(l)

\* The bucket a row's fragment is appended to (line 516).
BucketOf(r) == normalize_section(Get(r, "section"))

\* A loop body that skips the rows of the bucket other.
AppendFragment_dropOther(b, r) ==
    IF BucketOf(r) = "other" THEN b
    ELSE [ b EXCEPT ![BucketOf(r)] = Append(@, article(r)) ]

\* Line 516: buckets[...].append(article(r))
AppendFragment(b, r) == [ b EXCEPT ![BucketOf(r)] = Append(@, article(r)) ]

EmptyBuckets == [ k \in Bucket |-> << >> ]

NoFile == [ exists |-> FALSE, content |-> << >> ]
File(c) == [ exists |-> TRUE, content |-> c ]
OLD == << "[previous publications.html]" >>

ERR_NOT_FOUND == << "ERROR: publications.csv not found next to build_publications.py\n",
                    "Create the CSV (see template) and run again.\n" >>
TRACEBACK == << "Traceback: AttributeError: 'NoneType' object has no attribute 'strip'\n" >>

NoTable == [ header |-> << >>, data |-> << >> ]

\* Lines 506-509 without the sys.exit(1) of line 509.
CheckCsvMissing_noexit ==
    /\ pc = "start"
    /\ ~csvExists
    /\ stderr' = stderr \o ERR_NOT_FOUND
    /\ pc' = "open_csv"
    /\ UNCHANGED << csvExists, table, rows, idx, buckets, html_out, outFile, outOpens,
                    stdout, exitStatus, events, fnVars >>

\* Lines 506-509 when the table is missing.
CheckCsvMissing ==
    /\ pc = "start"
    /\ ~csvExists
    /\ stderr' = stderr \o ERR_NOT_FOUND
    /\ exitStatus' = << 1 >>
    /\ pc' = "failed"
    /\ UNCHANGED << csvExists, table, rows, idx, buckets, html_out, outFile, outOpens,
                    stdout, events, fnVars >>

\* Line 506 when the table exists.
CheckCsvPresent ==
    /\ pc = "start"
    /\ csvExists
    /\ pc' = "open_csv"
    /\ UNCHANGED << csvExists, table, rows, idx, buckets, html_out, outFile, outOpens,
                    stderr, stdout, exitStatus, events, fnVars >>

\* Line 132 with the open of line 527 made ahead of it: the output file is created
\* or truncated before the table is read.
OpenCsv_outputFirst ==
    /\ pc = "open_csv"
    /\ outFile' = File(<< >>)
    /\ outOpens' = outOpens + 1
    /\ events' = events \o << "open_out", "open_csv" >>
    /\ pc' = "reading"
    /\ UNCHANGED << csvExists, table, rows, idx, buckets, html_out,
                    stderr, stdout, exitStatus, fnVars >>

\* Line 132: open(csv_path)
OpenCsv ==
    /\ pc = "open_csv"
    /\ events' = Append(events, "open_csv")
    /\ pc' = "reading"
    /\ UNCHANGED << csvExists, table, rows, idx, buckets, html_out, outFile, outOpens,
                    stderr, stdout, exitStatus, fnVars >>

\* Lines 133-137: the loop over the reader, when no line raises.
ReadRowsOk ==
    /\ pc = "reading"
    /\ read_rows(table).ok
    /\ rows' = read_rows(table).rows
    /\ events' = Append(events, "read_csv")
    /\ pc' = "close_csv"
    /\ UNCHANGED << csvExists, table, idx, buckets, html_out, outFile, outOpens,
                    stderr, stdout, exitStatus, fnVars >>

\* Lines 133-137: a line raises in the comprehension.
ReadRowsRaise ==
    /\ pc = "reading"
    /\ ~read_rows(table).ok
    /\ events' = Append(events, "read_csv")
    /\ pc' = "unwind"
    /\ UNCHANGED << csvExists, table, rows, idx, buckets, html_out, outFile, outOpens,
                    stderr, stdout, exitStatus, fnVars >>

\* The end of the with block of line 132, then line 511 returns.
CloseCsv ==
    /\ pc = "close_csv"
    /\ events' = Append(events, "close_csv")
    /\ buckets' = EmptyBuckets
    /\ idx' = 1
    /\ pc' = "bucket"
    /\ UNCHANGED << csvExists, table, rows, html_out, outFile, outOpens,
                    stderr, stdout, exitStatus, fnVars >>

\* The with block of line 132 left by the exception, which nothing catches: the
\* interpreter prints the traceback and exits with status 1.
CloseCsvRaise ==
    /\ pc = "unwind"
    /\ events' = Append(events, "close_csv")
    /\ stderr' = stderr \o TRACEBACK
    /\ exitStatus' = << 1 >>
    /\ pc' = "crashed"
    /\ UNCHANGED << csvExists, table, rows, idx, buckets, html_out, outFile, outOpens,
                    stdout, fnVars >>

\* Lines 515-516: one turn of the loop over rows.
BucketStep ==
    /\ pc = "bucket"
    /\ idx <= Len(rows)
    /\ buckets' = AppendFragment(buckets, rows[idx])
    /\ idx' = idx + 1
    /\ UNCHANGED << pc, csvExists, table, rows, html_out, outFile, outOpens,
                    stderr, stdout, exitStatus, events, fnVars >>

\* Lines 517-518: every bucket reversed in place, after the loop over rows.
ReverseBuckets ==
    /\ pc = "bucket"
    /\ idx > Len(rows)
    /\ buckets' = [ k \in Bucket |-> ReverseBucket(buckets[k]) ]
    /\ pc' = "fill"
    /\ UNCHANGED << csvExists, table, rows, idx, html_out, outFile, outOpens,
                    stderr, stdout, exitStatus, events, fnVars >>

\* Lines 521-525.
FillShellStep ==
    /\ pc = "fill"
    /\ html_out' = FillShell(buckets)
    /\ pc' = "open_out"
    /\ UNCHANGED << csvExists, table, rows, idx, buckets, outFile, outOpens,
                    stderr, stdout, exitStatus, events, fnVars >>

\* Line 527: open(OUT_FILE, "w") creates or truncates the file.
OpenOut ==
    /\ pc = "open_out"
    /\ outFile' = File(<< >>)
    /\ outOpens' = outOpens + 1
    /\ events' = Append(events, "open_out")
    /\ pc' = "write"
    /\ UNCHANGED << csvExists, table, rows, idx, buckets, html_out,
                    stderr, stdout, exitStatus, fnVars >>

\* Line 528, and the end of the with block of line 527.
WriteOut ==
    /\ pc = "write"
    /\ outFile' = File(outFile.content \o html_out)
    /\ events' = events \o << "write_out", "close_out" >>
    /\ pc' = "print"
    /\ UNCHANGED << csvExists, table, rows, idx, buckets, html_out, outOpens,
                    stderr, stdout, exitStatus, fnVars >>

\* Line 530, then main returns and the process exits with status 0.
PrintSummary ==
    /\ pc = "print"
    /\ stdout' = Append(stdout,
                        [ wrote |-> Len(buckets["journal"]) + Len(buckets["working"])
                                    + Len(buckets["conference"]) + Len(buckets["other"]) ])
    /\ exitStatus' = << 0 >>
    /\ pc' = "done"
    /\ UNCHANGED << csvExists, table, rows, idx, buckets, html_out, outFile, outOpens,
                    stderr, events, fnVars >>

(***************************************************************************)
(* The runs of main: the inputs are the table (when there is one) and the  *)
(* output file left by an earlier run (when there is one).                 *)
(***************************************************************************)
\* Two header lines: section, title and media, the first two names with whitespace
\* around them; and title alone (no section column, and every line with a second
\* cell has more cells than the header).
H_PADDED    == << << " ", "section", " " >>, << "title", "\t" >>, Name("media") >>
H_NOSECTION == << Name("title") >>

Headers == { H_PADDED, H_NOSECTION }

L_JOUR  == << << "J", "o", "u", "r", "n", "a", "l" >>, << "A" >> >>
L_CONF  == << << " ", "C", "O", "N", "F", ".", " " >>, << " ", "C" >> >>
L_MISC  == << << "m", "i", "s", "c" >>, << "D", "<" >> >>
L_SHORT == << << "j", "o", "u", "r" >> >>
L_TOKEN == << << "j", "o", "u", "r" >>, PH_WORKING >>
L_MEDIA == << << "W", "o", "r", "k" >>, << "E" >>, << "T", "|", "u", ";", "N" >> >>
L_BLANK == << >>

Lines == { L_JOUR, L_CONF, L_MISC, L_SHORT, L_TOKEN, L_MEDIA, L_BLANK }

\* The sequences of at most n elements of S.
RECURSIVE SeqsUpTo(_, _)
SeqsUpTo(S, n) ==
    IF n = 0 THEN { << >> }
    ELSE LET prev == SeqsUpTo(S, n - 1)
         IN  prev \cup { << x >> \o q : x \in S, q \in { r \in prev : Len(r) = n - 1 } }

Tables == { [ header |-> h, data |-> d ] : h \in Headers, d \in SeqsUpTo(Lines, MaxRows) }

FnIdle == fn = "none" /\ arg = << >> /\ res = << >>

Init ==
    /\ pc = "start"
    /\ csvExists \in BOOLEAN
    /\ table \in (IF csvExists THEN Tables ELSE { NoTable })
    /\ outFile \in { NoFile, File(OLD) }
    /\ rows = << >>
    /\ idx = 1
    /\ buckets = EmptyBuckets
    /\ html_out = << >>
    /\ outOpens = 0
    /\ stderr = << >>
    /\ stdout = << >>
    /\ exitStatus = << >>
    /\ events = << >>
    /\ FnIdle

Next ==
    \/ CheckCsvMissing
    \/ CheckCsvPresent
    \/ OpenCsv
    \/ ReadRowsOk
    \/ ReadRowsRaise
    \/ CloseCsv
    \/ CloseCsvRaise
    \/ BucketStep
    \/ ReverseBuckets
    \/ FillShellStep
    \/ OpenOut
    \/ WriteOut
    \/ PrintSummary

Spec == Init /\ [][Next]_vars

(***************************************************************************)
(* Properties of a run of main.                                            *)
(***************************************************************************)
\* The loop over rows and the reversal of the buckets are over.
Bucketed == pc \in { "fill", "open_out", "write", "print", "done" }

\* How often x occurs in the list l.
Count(x, l) == Cardinality({ p \in 1..Len(l) : l[p] = x })

\* The fragment of every row, and the bucket its section field names.
Fragments == [ i \in 1..Len(rows) |-> article(rows[i]) ]

Sections == [ i \in 1..Len(rows) |-> normalize_section(Get(rows[i], "section")) ]

\* The indices of the rows whose section sec[i] is k, in input order.
RowsOf(sec, k) == SelectSeq([ i \in 1..Len(sec) |-> i ], LAMBDA i : sec[i] = k)

TotalItems ==
    Len(buckets["journal"]) + Len(buckets["working"])
    + Len(buckets["conference"]) + Len(buckets["other"])

\* Given the fragment frag[i] and the section sec[i] of every row: every bucket
\* holds each fragment as often as the rows of its section produce it, and nothing
\* that no row produces.
Partitioned(frag, sec) ==
    \A k \in Bucket :
        /\ \A i \in 1..Len(frag) :
             Count(frag[i], buckets[k])
               = Cardinality({ j \in 1..Len(frag) : frag[j] = frag[i] /\ sec[j] = k })
        /\ \A p \in 1..Len(buckets[k]) : \E i \in 1..Len(frag) : buckets[k][p] = frag[i]

\* C1: once the rows are bucketed, every bucket holds each fragment exactly as
\* often as the rows of that bucket's section produce it (so a row's fragment is in
\* the bucket normalize_section names and is neither dropped nor duplicated), and
\* the four buckets together hold as many fragments as there are rows.
C1_PartitionComplete ==
    Bucketed => (TotalItems = Len(rows) /\ Partitioned(Fragments, Sections))

\* A finished run with three rows spread over two buckets, one of them holding two.
C1_Witness ==
    /\ pc = "done"
    /\ Len(rows) = 3
    /\ Len(buckets["journal"]) = 2
    /\ Len(buckets["working"]) = 1

\* Given the fragment frag[i] and the section sec[i] of every row: the p-th element
\* of every bucket is the fragment of the p-th last row of the bucket's section.
Reversed(frag, sec) ==
    \A k \in Bucket :
        LET ix == RowsOf(sec, k)
        IN  /\ Len(buckets[k]) = Len(ix)
            /\ \A p \in 1..Len(ix) : buckets[k][p] = frag[ix[Len(ix) + 1 - p]]

\* C2: once the rows are bucketed, the p-th fragment of a bucket is the fragment of
\* the p-th last row of that bucket's section: each bucket is the exact reverse of
\* the input order of its rows.
C2_ReverseOrder == Bucketed => Reversed(Fragments, Sections)

\* A finished run whose journal bucket holds three different fragments.
C2_Witness ==
    /\ pc = "done"
    /\ Len(buckets["journal"]) = 3
    /\ buckets["journal"][1] # buckets["journal"][2]
    /\ buckets["journal"][2] # buckets["journal"][3]
    /\ buckets["journal"][1] # buckets["journal"][3]

\* C4: when publications.csv does not exist, the run can only go from its start
\* (where it is not stuck) straight to the failure exit with status 1 and the
\* two-line diagnostic on standard error, the output file is never opened, and no
\* step changes the output file.
C4_MissingInput ==
    /\ [](~csvExists =>
            /\ pc \in { "start", "failed" }
            /\ pc = "failed" => (exitStatus = << 1 >> /\ stderr = ERR_NOT_FOUND)
            /\ pc = "start" => (exitStatus = << >> /\ stderr = << >> /\ ENABLED CheckCsvMissing)
            /\ outOpens = 0
            /\ \A e \in 1..Len(events) : events[e] \notin { "open_out", "write_out" })
    /\ [][~csvExists => outFile' = outFile]_vars

\* A failed run that found an output file of an earlier run and left it as it was.
C4_Witness ==
    /\ ~csvExists
    /\ pc = "failed"
    /\ exitStatus = << 1 >>
    /\ outFile = File(OLD)

\* C5: every run on a table that exists ends by writing the document and exiting
\* with status 0: it never ends in another way.
C5_OnlyMissingInputIsFatal ==
    (csvExists /\ exitStatus # << >>) =>
        /\ pc = "done"
        /\ exitStatus = << 0 >>
        /\ outFile = File(html_out)

\* The document with each slot holding its own bucket and nothing else.
Document(b) ==
    SHELL_HEAD \o Slot(b["journal"]) \o SHELL_CONF \o Slot(b["conference"])
    \o SHELL_WORK \o Slot(b["working"]) \o SHELL_OTHER \o Slot(b["other"]) \o SHELL_TAIL

\* C10: the written document is the template with the Journal, Conference, Working
\* and Other slots, in this order, each holding exactly the fragments of its own
\* bucket (a newline when the bucket is empty), whatever the field values are.
C10_SlotsHoldOwnBucket ==
    pc = "done" => outFile = File(Document(buckets))

(***************************************************************************)
(* The helpers applied on their own: the argument is drawn in the initial  *)
(* state, the one step is the call.                                        *)
(***************************************************************************)
MainIdle ==
    /\ csvExists = FALSE
    /\ table = NoTable
    /\ outFile = NoFile
    /\ rows = << >>
    /\ idx = 1
    /\ buckets = EmptyBuckets
    /\ html_out = << >>
    /\ outOpens = 0
    /\ stderr = << >>
    /\ stdout = << >>
    /\ exitStatus = << >>
    /\ events = << >>

SectionPieces ==
    { << " " >>, << "\t" >>, << "x" >>, << "." >>, << "j" >>, << "o", "u", "r" >>,
      << "j", "o", "u", "r" >>, << "J", "o", "U", "r" >>,
      << "w", "o", "r", "k" >>, << "W", "O", "R", "K" >>,
      << "c", "o", "n", "f" >>, << "C", "o", "n", "f" >> }

SectionLabels == Compose(SectionPieces, MaxSectionPieces)

InitSection ==
    /\ pc = "call"
    /\ fn = "normalize_section"
    /\ arg \in SectionLabels
    /\ res = ""
    /\ MainIdle

CallNormalizeSection ==
    /\ pc = "call"
    /\ fn = "normalize_section"
    /\ res' = normalize_section(arg)
    /\ pc' = "return"
    /\ UNCHANGED << csvExists, table, rows, idx, buckets, html_out, outFile, outOpens,
                    stderr, stdout, exitStatus, events, fn, arg >>

SpecSection == InitSection /\ [][CallNormalizeSection]_vars

\* The position of the first character of s that is not whitespace, Len(s) + 1 if none.
FirstInk(s) ==
    LET ink == { i \in 1..Len(s) : s[i] \notin Whitespace }
    IN  IF ink = { } THEN Len(s) + 1 ELSE Min(ink)

\* A lower-case letter and its upper-case form.
BothCases(c) == { c } \cup { UpperCase[i] : i \in { j \in 1..26 : LowerCase[j] = c } }

\* The four letters of w, in either case, follow the leading whitespace of s.
LabelBegins(s, w) ==
    LET f == FirstInk(s)
    IN  /\ f + 3 <= Len(s)
        /\ \A k \in 0..3 : s[f + k] \in BothCases(w[k + 1])

\* C3: normalize_section answers one of the four buckets for every label: journal
\* exactly for the labels that begin, after their leading whitespace and in any
\* case, with "jour", working exactly for "work", conference exactly for "conf",
\* and other for every remaining label, the empty one included.
C3_SectionNormalization ==
    (fn = "normalize_section" /\ pc = "return") =>
        /\ res \in Bucket
        /\ res = "journal" <=> LabelBegins(arg, JOUR)
        /\ res = "working" <=> LabelBegins(arg, WORK)
        /\ res = "conference" <=> LabelBegins(arg, CONF)
        /\ res = "other" <=>
             ~(LabelBegins(arg, JOUR) \/ LabelBegins(arg, WORK) \/ LabelBegins(arg, CONF))

\* A label with leading whitespace and mixed case that was answered journal.
C3_Witness ==
    /\ fn = "normalize_section"
    /\ pc = "return"
    /\ arg = << " ", "J", "o", "U", "r", "x" >>
    /\ res = "journal"

(***************************************************************************)
(* fmt on its own.                                                         *)
(***************************************************************************)
FmtPieces ==
    { OpenTag(EM), CloseTag(EM), OpenTag(TagI), CloseTag(TagI),
      OpenTag(STRONG), CloseTag(STRONG), OpenTag(TagB), CloseTag(TagB),
      OpenTag(<< "u" >>), OpenTag(<< "E", "M" >>), OpenTag(<< "e", "m", " ", "x" >>),
      EscOpenTag(EM),
      << "<" >>, << "*" >>, << "_" >>, << "\n" >> }

FmtTexts == Compose(FmtPieces, MaxFmtPieces)

InitFmt ==
    /\ pc = "call"
    /\ fn = "fmt"
    /\ arg \in FmtTexts
    /\ res = << >>
    /\ MainIdle

CallFmt ==
    /\ pc = "call"
    /\ fn = "fmt"
    /\ res' = fmt(arg)
    /\ pc' = "return"
    /\ UNCHANGED << csvExists, table, rows, idx, buckets, html_out, outFile, outOpens,
                    stderr, stdout, exitStatus, events, fn, arg >>

SpecFmt == InitFmt /\ [][CallFmt]_vars

\* The four tags that may stand raw in the output of fmt.
RawTags == { OpenTag(EM), CloseTag(EM), OpenTag(STRONG), CloseTag(STRONG) }

\* The literal tags of the input that fmt lets through, with what each becomes.
Allowed ==
    { << OpenTag(EM), OpenTag(EM) >>, << CloseTag(EM), CloseTag(EM) >>,
      << OpenTag(TagI), OpenTag(EM) >>, << CloseTag(TagI), CloseTag(EM) >>,
      << OpenTag(STRONG), OpenTag(STRONG) >>, << CloseTag(STRONG), CloseTag(STRONG) >>,
      << OpenTag(TagB), OpenTag(STRONG) >>, << CloseTag(TagB), CloseTag(STRONG) >> }

\* Position i of t is the "<" of a raw tag of the set.
TagOpensAt(t, i) == \E g \in RawTags : MatchAt(t, i, g)

\* Position i of t is the ">" of a raw tag of the set.
TagClosesAt(t, i) == \E g \in RawTags : i - Len(g) + 1 >= 1 /\ MatchAt(t, i - Len(g) + 1, g)

\* What a text without emphasis markers must become, read off the input from
\* position i on: an allowed literal tag becomes its raw tag, every other character
\* is escaped.
RECURSIVE TagwiseFrom(_, _)
TagwiseFrom(s, i) ==
    IF i > Len(s) THEN << >>
    ELSE IF \E a \in Allowed : MatchAt(s, i, a[1])
    THEN LET a == CHOOSE a \in Allowed : MatchAt(s, i, a[1])
         IN  a[2] \o TagwiseFrom(s, i + Len(a[1]))
    ELSE (CASE s[i] = "&" -> AMP [] s[i] = "<" -> LT [] s[i] = ">" -> GT
            [] OTHER -> << s[i] >>)
         \o TagwiseFrom(s, i + 1)

MarkerFree(s) == \A i \in 1..Len(s) : s[i] \notin { "*", "_" }

\* C7: in the output of fmt every "<" opens and every ">" closes one of the raw
\* tags <em>, </em>, <strong>, </strong>; and on an input without emphasis markers
\* the output is the input with its literal <em>, </em>, <strong>, </strong> kept,
\* its literal <i>, </i>, <b>, </b> turned into <em>, </em>, <strong>, </strong>,
\* and every other character, the angle brackets of any other tag included, escaped.
C7_OnlyWhitelistedTags ==
    (fn = "fmt" /\ pc = "return") =>
        /\ \A i \in 1..Len(res) :
             /\ res[i] = "<" => TagOpensAt(res, i)
             /\ res[i] = ">" => TagClosesAt(res, i)
        /\ MarkerFree(arg) => res = TagwiseFrom(arg, 1)

\* An input holding a whitelisted tag, a tag to convert and a tag to keep escaped.
C7_Witness ==
    /\ fn = "fmt"
    /\ pc = "return"
    /\ arg = OpenTag(TagI) \o OpenTag(<< "u" >>) \o CloseTag(EM)
    /\ res = OpenTag(EM) \o EscOpenTag(<< "u" >>) \o CloseTag(EM)

(***************************************************************************)
(* fmt on texts of well-formed emphasis spans.  A text is given by its     *)
(* segments: plain text, or a span with its marker and its body.           *)
(***************************************************************************)
SpanKinds == { "**", "__", "*", "_" }

Bodies == { << "a" >>, << "<", "b" >>, << "a", "\n", "b" >> }

Segments == [ kind : SpanKinds \cup { "text" }, body : Bodies ]

\* Two spans are never adjacent: at least one marker-free character separates them.
WellFormed(segs) ==
    \A i \in 1..(Len(segs) - 1) : segs[i].kind = "text" \/ segs[i + 1].kind = "text"

Marker(kind) ==
    CASE kind = "**" -> << "*", "*" >>
      [] kind = "__" -> << "_", "_" >>
      [] kind = "*"  -> << "*" >>
      [] kind = "_"  -> << "_" >>
      [] OTHER       -> << >>

\* The text the segments spell.
Flatten(segs) ==
    Concat([ i \in 1..Len(segs) |->
               Marker(segs[i].kind) \o segs[i].body \o Marker(segs[i].kind) ])

InitSpans ==
    /\ pc = "call"
    /\ fn = "fmt_spans"
    /\ arg \in { segs \in SeqsUpTo(Segments, MaxSegments) : WellFormed(segs) }
    /\ res = << >>
    /\ MainIdle

CallFmtSpans ==
    /\ pc = "call"
    /\ fn = "fmt_spans"
    /\ res' = fmt(Flatten(arg))
    /\ pc' = "return"
    /\ UNCHANGED << csvExists, table, rows, idx, buckets, html_out, outFile, outOpens,
                    stderr, stdout, exitStatus, events, fn, arg >>

SpecSpans == InitSpans /\ [][CallFmtSpans]_vars

\* What the segments must become: the escaped body, inside <strong> for a double
\* marker and inside <em> for a single one.
Rendered(seg) ==
    CASE seg.kind \in { "**", "__" } -> OpenTag(STRONG) \o esc(seg.body) \o CloseTag(STRONG)
      [] seg.kind \in { "*", "_" }   -> OpenTag(EM) \o esc(seg.body) \o CloseTag(EM)
      [] OTHER                       -> esc(seg.body)

\* C8: on a text of marker-free segments and well-formed spans, fmt turns every
\* double-marker span into <strong>body</strong> and every single-marker span into
\* <em>body</em>, and leaves no * or _ in the output.
C8_SpansFormatted ==
    (fn = "fmt_spans" /\ pc = "return") =>
        /\ res = Concat([ i \in 1..Len(arg) |-> Rendered(arg[i]) ])
        /\ \A i \in 1..Len(res) : res[i] \notin { "*", "_" }

(***************************************************************************)
(* links on rows that hold a media value only.                             *)
(***************************************************************************)
MediaPieces ==
    { << "T" >>, << "u" >>, << "<" >>, << "|" >>, << ";" >>, << " " >>,
      << "T", "|", "u" >>, << "N", ";" >> }

MediaValues == Compose(MediaPieces, MaxMediaPieces)

MediaRow(v) == [ k \in { Name("media") } |-> v ]

InitMedia ==
    /\ pc = "call"
    /\ fn = "links"
    /\ arg \in { MediaRow(v) : v \in MediaValues }
    /\ res = << >>
    /\ MainIdle

CallLinks ==
    /\ pc = "call"
    /\ fn = "links"
    /\ res' = links(arg)
    /\ pc' = "return"
    /\ UNCHANGED << csvExists, table, rows, idx, buckets, html_out, outFile, outOpens,
                    stderr, stdout, exitStatus, events, fn, arg >>

SpecMedia == InitMedia /\ [][CallLinks]_vars

\* The positions of the semicolons of m, with 0 before them and Len(m) + 1 after
\* them: the k-th item of m lies strictly between the k-th and the (k+1)-th of them.
Fences(m) == { 0, Len(m) + 1 } \cup { i \in 1..Len(m) : m[i] = ";" }

\* The k-th smallest element of the set S of integers.
Nth(S, k) == CHOOSE x \in S : Cardinality({ y \in S : y < x }) = k - 1

ItemCount(m) == Cardinality(Fences(m)) - 1

Item(m, k) == SubSeq(m, Nth(Fences(m), k) + 1, Nth(Fences(m), k + 1) - 1)

\* The label of an item: what precedes its first "|" (all of it when it has none).
LabelOf(item) ==
    LET bars == { i \in 1..Len(item) : item[i] = "|" }
    IN  Strip(IF bars = { } THEN item ELSE SubSeq(item, 1, Min(bars) - 1))

\* The url of an item: what follows its first "|" (nothing when it has none).
UrlOf(item) ==
    LET bars == { i \in 1..Len(item) : item[i] = "|" }
    IN  Strip(IF bars = { } THEN << >> ELSE SubSeq(item, Min(bars) + 1, Len(item)))

\* The badge an item must give: none, a link, or a plain badge.
Badge(item) ==
    IF LabelOf(item) = << >> THEN << >>
    ELSE IF UrlOf(item) # << >>
    THEN << "[a.media-pill href=]" >> \o esc(UrlOf(item)) \o << "[ rel=noopener>]" >>
         \o esc(LabelOf(item)) \o << "[/a]" >>
    ELSE << "[span.media-pill]" >> \o esc(LabelOf(item)) \o << "[/span]" >>

\* C9: for a media value that is not empty after trimming, the media list links()
\* emits holds, in item order, exactly one badge for every item between semicolons
\* whose label (the trimmed text before the item's first "|") is not empty: a link
\* to the trimmed text after that "|" when there is some, a plain badge otherwise;
\* and nothing for an item whose label is empty.
C9_MediaBadges ==
    (fn = "links" /\ pc = "return" /\ Strip(arg[Name("media")]) # << >>) =>
        LET m == Strip(arg[Name("media")])
        IN  res = << "[div.links]" >> \o SEP_LINKS
                  \o << "[details.media][div.media-list]" >>
                  \o Concat([ k \in 1..ItemCount(m) |-> Badge(Item(m, k)) ])
                  \o << "[/div][/details]" >> \o SEP_LINKS \o << "[/div]" >>

\* The media value "T|u;N;" has given a link labelled T and a plain badge N.
C9_Witness ==
    /\ fn = "links"
    /\ pc = "return"
    /\ arg[Name("media")] = << "T", "|", "u", ";", "N", ";" >>
    /\ res = << "[div.links]" >> \o SEP_LINKS
             \o << "[details.media][div.media-list]",
                   "[a.media-pill href=]", "u", "[ rel=noopener>]", "T", "[/a]",
                   "[span.media-pill]", "N", "[/span]",
                   "[/div][/details]" >> \o SEP_LINKS \o << "[/div]" >>

(***************************************************************************)
(* article on rows that hold one field with markup-significant characters. *)
(***************************************************************************)
ValuePieces ==
    { << "<" >>, << "&" >>, << "\"" >>, << "'" >>, << "a" >>, << "*" >>,
      NL_ENTITY, OpenTag(EM), OpenTag(<< "u" >>) }

FieldValues == Compose(ValuePieces, MaxValuePieces) \ { << >> }

PlainFields ==
    { "title", "authors", "status", "year", "venue", "comment", "paper_url",
      "slides_url", "doi_url", "bibtex", "abstract" }

\* The rows: the value v in one field; paper_label beside a paper_url (without one
\* the label is not rendered); v as the label or as the url of a media item.
ArticleRows ==
    { [ k \in { Name(f) } |-> v ] : f \in PlainFields, v \in FieldValues }
    \cup { (Name("paper_label") :> v) @@ (Name("paper_url") :> << "u" >>) : v \in FieldValues }
    \cup { [ k \in { Name("media") } |-> v \o << "|", "u" >> ] : v \in FieldValues }
    \cup { [ k \in { Name("media") } |-> << "T", "|" >> \o v ] : v \in FieldValues }

InitArticle ==
    /\ pc = "call"
    /\ fn = "article"
    /\ arg \in ArticleRows
    /\ res = << >>
    /\ MainIdle

CallArticle ==
    /\ pc = "call"
    /\ fn = "article"
    /\ res' = article(arg)
    /\ pc' = "return"
    /\ UNCHANGED << csvExists, table, rows, idx, buckets, html_out, outFile, outOpens,
                    stderr, stdout, exitStatus, events, fn, arg >>

SpecArticle == InitArticle /\ [][CallArticle]_vars

\* The five character references html.escape writes.
Entities == { AMP, LT, GT, QUOT, APOS }

EntityAt(t, i) == \E e \in Entities : MatchAt(t, i, e)

\* Position i of t lies after the element open and before the next element close.
Inside(t, i, open, close) ==
    \E a \in 1..(i - 1) : t[a] = open /\ \A b \in a..i : t[b] # close

InAbstract(t, i) == Inside(t, i, "[details.abstract][div.abs-body]", "[/div][/details]")

InCite(t, i) == Inside(t, i, "[details.cite][pre][code]", "[/code][/pre][/details]")

\* The quotes and angle brackets of a fragment: no quote character stands in it, and
\* a "<" stands only in the abstract, as the start of a whitelisted tag.  (The
\* markup of the program's own literals is not made of single characters.)
QuotesAndBracketsEscaped(t) ==
    \A i \in 1..Len(t) :
        /\ t[i] \notin { "\"", "'" }
        /\ t[i] = "<" => (InAbstract(t, i) /\ TagOpensAt(t, i))

\* The positions of a fragment where an "&" stands that starts none of the five
\* character references.
RawAmpersands(t) == { i \in 1..Len(t) : t[i] = "&" /\ ~EntityAt(t, i) }

\* How often the text w occurs in s.
Occurrences(s, w) == Cardinality({ i \in 1..Len(s) : MatchAt(s, i, w) })

\* C6 as stated: in the fragment of article() no <, &, " or ' of a field value is
\* left unescaped, except the whitelisted tags of the abstract; also in the citation
\* text after its normalization.
C6_AllFieldsEscaped ==
    (fn = "article" /\ pc = "return") =>
        /\ QuotesAndBracketsEscaped(res)
        /\ RawAmpersands(res) = { }

\* C6 as amended: the same, except that every "&#10;" of the bibtex value stands in
\* the citation text as the raw reference "&#10;": these, one per occurrence in the
\* value, are the only unescaped "&" of the fragment.
C6_EscapedButNewlineReference ==
    (fn = "article" /\ pc = "return") =>
        /\ QuotesAndBracketsEscaped(res)
        /\ \A i \in RawAmpersands(res) : InCite(res, i) /\ MatchAt(res, i, NL_ENTITY)
        /\ Cardinality(RawAmpersands(res)) = Occurrences(Get(arg, "bibtex"), NL_ENTITY)

\* A bibtex value with a quote and a "&#10;": the quote is escaped, the reference raw.
C6_Witness ==
    /\ fn = "article"
    /\ pc = "return"
    /\ Get(arg, "bibtex") = << "\"" >> \o NL_ENTITY
    /\ \E i \in 1..Len(res) : MatchAt(res, i, QUOT \o NL_ENTITY)

(***************************************************************************)
(* links on rows that hold the fields of the link controls.                *)
(***************************************************************************)
\* A field the row does not have.
Absent == << "[absent]" >>

LinkFields == { "paper_url", "paper_label", "slides_url", "doi_url", "bibtex", "media" }

\* The values tried in every field: none at all, the empty text, whitespace alone,
\* a text with whitespace around it, a text that needs escaping.
LinkValues ==
    [ f \in LinkFields |->
        CASE f = "paper_url"   -> { Absent, << >>, << " " >>, << "u", "&" >> }
          [] f = "paper_label" -> { Absent, << >>, << " " >>, << " ", "L", "<", " " >> }
          [] f = "slides_url"  -> { << >>, << "s" >> }
          [] f = "doi_url"     -> { Absent, << "d" >> }
          [] f = "bibtex"      -> { << >>, << "b" >> }
          [] f = "media"       -> { << >>, << " " >>, << "T" >> } ]

\* The row that holds choice[f] in every field f where it is not Absent.
LinkRow(choice) ==
    [ k \in { Name(f) : f \in { g \in LinkFields : choice[g] # Absent } } |-> choice[k[1]] ]

LinkRows == { LinkRow(c) : c \in { c \in [ LinkFields -> UNION { LinkValues[f] : f \in LinkFields } ] :
                                     \A f \in LinkFields : c[f] \in LinkValues[f] } }

InitLinks ==
    /\ pc = "call"
    /\ fn = "links"
    /\ arg \in LinkRows
    /\ res = << >>
    /\ MainIdle

SpecLinks == InitLinks /\ [][CallLinks]_vars

\* The parts of the text links() returns: what stands between its separators.
Controls(t) == Split(t, SEP_LINKS[1])

\* What a part is, told by the markup around the field values.
KindOf(part) ==
    CASE part = << "[div.links]" >> -> "open"
      [] part = << "[/div]" >> -> "close"
      [] Len(part) >= 2 /\ part[1] = "[details.cite][pre][code]" -> "cite"
      [] Len(part) >= 2 /\ part[1] = "[details.media][div.media-list]" -> "media"
      [] Len(part) >= 2 /\ part[1] = "[a.btn href=]"
           /\ \E i \in 1..Len(part) : part[i] = "[ itemprop=url>]" -> "paper"
      [] Len(part) >= 2 /\ part[1] = "[a.btn href=]"
           /\ \E i \in 1..Len(part) :
                SubSeq(part, i, Len(part)) = << "[>]" >> \o SLIDES \o << "[/a]" >> -> "slides"
      [] Len(part) >= 2 /\ part[1] = "[a.btn href=]"
           /\ \E i \in 1..Len(part) :
                SubSeq(part, i, Len(part)) = << "[>]" >> \o DOI \o << "[/a]" >> -> "doi"
      [] OTHER -> "unknown"

Kinds(t) == [ i \in 1..Len(Controls(t)) |-> KindOf(Controls(t)[i]) ]

\* The place of a kind of control in the fixed order.
Rank(kind) ==
    CASE kind = "open" -> 0 [] kind = "paper" -> 1 [] kind = "slides" -> 2
      [] kind = "doi" -> 3 [] kind = "cite" -> 4 [] kind = "media" -> 5
      [] kind = "close" -> 6 [] OTHER -> 7

\* The one part of kind in t (there is exactly one where this is used).
ControlOf(t, kind) ==
    Controls(t)[CHOOSE i \in 1..Len(Controls(t)) : Kinds(t)[i] = kind]

\* The label the paper link must carry.
LabelWanted(row) ==
    IF Strip(Get(row, "paper_label")) # << >> THEN Strip(Get(row, "paper_label"))
    ELSE << "P", "a", "p", "e", "r" >>

\* kind occurs once among the controls of t when present holds, and not at all
\* otherwise.
PresentExactlyWhen(t, kind, present) ==
    Count(kind, Kinds(t)) = (IF present THEN 1 ELSE 0)

\* C11: the text links() returns is made of the opening, then the controls, then
\* the closing; the paper link is there exactly when paper_url is not empty, and
\* carries the (trimmed, escaped) paper_label when that is not empty after trimming
\* and "Paper" otherwise; the Slides and DOI links are there exactly when slides_url
\* and doi_url are not empty, labelled "Slides" and "DOI"; the citation control is
\* there exactly when bibtex is not empty; and the controls stand in the order
\* paper, slides, DOI, cite, media.
C11_LinkControls ==
    (fn = "links" /\ pc = "return") =>
        LET kinds == Kinds(res)
            n == Len(kinds)
        IN  /\ n >= 2 /\ kinds[1] = "open" /\ kinds[n] = "close"
            /\ \A i \in 1..n : kinds[i] # "unknown"
            /\ \A i, j \in 1..n : i < j => Rank(kinds[i]) < Rank(kinds[j])
            /\ PresentExactlyWhen(res, "paper", Get(arg, "paper_url") # << >>)
            /\ PresentExactlyWhen(res, "slides", Get(arg, "slides_url") # << >>)
            /\ PresentExactlyWhen(res, "doi", Get(arg, "doi_url") # << >>)
            /\ PresentExactlyWhen(res, "cite", Get(arg, "bibtex") # << >>)
            /\ Get(arg, "paper_url") # << >> =>
                 ControlOf(res, "paper")
                   = << "[a.btn href=]" >> \o esc(Get(arg, "paper_url"))
                     \o << "[ itemprop=url>]" >> \o esc(LabelWanted(arg)) \o << "[/a]" >>
            /\ Get(arg, "slides_url") # << >> =>
                 ControlOf(res, "slides")
                   = << "[a.btn href=]" >> \o esc(Get(arg, "slides_url"))
                     \o << "[>]", "S", "l", "i", "d", "e", "s", "[/a]" >>
            /\ Get(arg, "doi_url") # << >> =>
                 ControlOf(res, "doi")
                   = << "[a.btn href=]" >> \o esc(Get(arg, "doi_url"))
                     \o << "[>]", "D", "O", "I", "[/a]" >>

\* A row with every control, its paper_label whitespace alone: the five controls
\* stand in order and the paper link is labelled "Paper".
C11_Witness ==
    /\ fn = "links"
    /\ pc = "return"
    /\ Get(arg, "paper_label") = << " " >>
    /\ Kinds(res) = << "open", "paper", "slides", "doi", "cite", "media", "close" >>
    /\ ControlOf(res, "paper")
         = << "[a.btn href=]", "u", "&", "a", "m", "p", ";", "[ itemprop=url>]",
              "P", "a", "p", "e", "r", "[/a]" >>

\* Every item of the media value m has an empty label.
NoLabel(m) == \A k \in 1..ItemCount(m) : LabelOf(Item(m, k)) = << >>

\* The Media control around an empty badge list.
EmptyMediaControl == << "[details.media][div.media-list]", "[/div][/details]" >>

\* C14: links() emits the Media control exactly when the media value is not empty
\* after trimming, however many badges it gives: with no item that has a label the
\* control is there around an empty badge list, and with a media value that is
\* empty or whitespace alone there is no Media control.
C14_MediaControlPresence ==
    (fn = "links" /\ pc = "return") =>
        LET m == Strip(Get(arg, "media"))
        IN  /\ PresentExactlyWhen(res, "media", m # << >>)
            /\ (m # << >> /\ NoLabel(m)) => ControlOf(res, "media") = EmptyMediaControl
            /\ m = << >> => res = << "[div.links]" >> \o SEP_LINKS \o << "[/div]" >>

\* The media value "|u", whose one item has a url and no label, has given the Media
\* control with nothing in its list.
C14_Witness ==
    /\ fn = "links"
    /\ pc = "return"
    /\ Get(arg, "media") = << "|", "u" >>
    /\ res = << "[div.links]" >> \o SEP_LINKS \o EmptyMediaControl
             \o SEP_LINKS \o << "[/div]" >>

(***************************************************************************)
(* What read_rows hands to main, and the order of the events of a run.     *)
(***************************************************************************)
\* The call of read_rows is over.
ReadOver == csvExists /\ pc \notin { "start", "open_csv", "reading" }

\* The field names of the header, trimmed.
FieldNames(header) == { Strip(header[h]) : h \in 1..Len(header) }

\* The record rec holds every field of the header under its trimmed name, with the
\* trimmed text of the cell of that column, or the empty text where the line has no
\* such cell, and holds nothing else.
RecordOf(rec, header, cells) ==
    /\ DOMAIN rec = FieldNames(header)
    /\ \A h \in 1..Len(header) :
         rec[Strip(header[h])] = Strip(IF h <= Len(cells) THEN cells[h] ELSE << >>)

\* C12: when the call of read_rows is over, main holds one record for every data
\* line of the table, in the order of the lines, each with every header field under
\* its trimmed name and the trimmed text of its cell (the empty text where the line
\* has none).
C12_RecordsAsRead ==
    ReadOver =>
        /\ Len(rows) = Len(DataLines(table))
        /\ \A i \in 1..Len(rows) : RecordOf(rows[i], table.header, DataLines(table)[i])

\* The events of a run that completes, in their order.
FullRun == << "open_csv", "read_csv", "close_csv", "open_out", "write_out", "close_out" >>

Happened(e) == \E i \in 1..Len(events) : events[i] = e

\* Every row is rendered into its bucket and the document is assembled from them.
Assembled ==
    /\ TotalItems = Len(rows)
    /\ Reversed(Fragments, Sections)
    /\ html_out = FillShell(buckets)

\* C13: at every point of every run the events so far are the first ones of: open,
\* read and close the input, open the output, write it, close it (so the input is
\* closed before the output is opened, and the output is opened at most once); when
\* the output is opened every fragment is rendered and the document assembled; what
\* is written is the whole document; a run that exits with a failure has not opened
\* or written the output; a run that has exited leaves the output file untouched or
\* holding the whole document; and only the steps that open and write the output,
\* taken after the input is closed and the document assembled, change the file.
C13_EventOrder ==
    /\ [](/\ Len(events) <= Len(FullRun)
          /\ events = SubSeq(FullRun, 1, Len(events))
          /\ outOpens = Count("open_out", events)
          /\ outOpens <= 1
          /\ Happened("open_out") => Assembled
          /\ Happened("write_out") => outFile = File(html_out)
          /\ exitStatus = << 1 >> => (outOpens = 0 /\ ~Happened("write_out"))
          /\ exitStatus # << >> => (outOpens = 0 \/ outFile = File(html_out)))
    /\ [][outFile' # outFile =>
             /\ Happened("close_csv")
             /\ Assembled
             /\ exitStatus = << >>]_vars

\* A run over three rows that completed: the six events in order, the output file
\* holding the whole document.
C13_Witness ==
    /\ pc = "done"
    /\ Len(rows) = 3
    /\ events = FullRun
    /\ outOpens = 1
    /\ outFile = File(html_out)

====
